---- MODULE Spec2Model ----
(***************************************************************************)
(* The issuance-record store of sa/precertificates.go: AddSerial,         *)
(* AddPrecertificate and GetPrecertificate of SQLStorageAuthority, run by *)
(* concurrent callers against one relational datastore.                   *)
(*                                                                         *)
(* A statement sent through the store handle (ssa.dbMap) is one atomic    *)
(* step on the committed tables.  AddPrecertificate runs its statements   *)
(* through the handle of one transaction (txWithCtx); every statement is  *)
(* a step of its own, so transactions of different callers interleave at  *)
(* statement boundaries.                                                   *)
(***************************************************************************)
EXTENDS Integers, Sequences, FiniteSets, TLC

(***************************************************************************)
(* Bounds of the model.                                                    *)
(***************************************************************************)
\* concurrent callers
NumProcs == 2
\* precertificate rows, committed or being written, the model lets exist
MaxRows == 2
\* width of a serial string, in hex digits
SerialLen == 3

Procs == 1..NumProcs

(***************************************************************************)
(* Values.  A string of hex digits is a sequence over 0..15; NonHex is a   *)
(* character that is no hex digit.  A time.Time is a record holding its    *)
(* nanoseconds; the zero time.Time{} is another value than any Unix time.  *)
(***************************************************************************)
NonHex == 16

TimeUnix(ns) == [unixNano |-> ns]

UnixNano(t) == t.unixNano

ZeroTime == [unixNano |-> -1]

\* core.SerialToString: the serial number in hex, zero-padded to a fixed width
SerialToString(n) ==
    [i \in 1..SerialLen |-> (n \div (16 ^ (SerialLen - i))) % 16]

\* core.ValidSerial: fixed length, hex-encoded
ValidSerial(s) ==
    /\ Len(s) = SerialLen
    /\ \A i \in 1..Len(s) : s[i] \in 0..15

\* strings.ToLower on the DNS names of the model
ToLower(name) ==
    CASE name = "A.Example" -> "a.example"
      [] name = "B.EXAMPLE" -> "b.example"
      [] OTHER -> name

(***************************************************************************)
(* DER inputs and x509.ParseCertificate.  EmptyDER is the zero-length byte *)
(* slice, BadDER bytes that do not decode as a certificate.                *)
(***************************************************************************)
EmptyDER == "der:empty"

BadDER == "der:malformed"

\* the certificates the callers record
ValidDERs == {"der:1", "der:2", "der:3"}

\* another certificate with the serial number of the first, other names and
\* another key
CollidingDER == "der:4"

DERs == ValidDERs \cup {EmptyDER, BadDER}

ParseError == [ok |-> FALSE]

ParseCertificate(der) ==
    CASE der = "der:1" ->
           [ok |-> TRUE, SerialNumber |-> 1, NotBefore |-> TimeUnix(1),
            NotAfter |-> TimeUnix(11), DNSNames |-> <<"a.example", "b.example">>,
            CommonName |-> "a.example", PublicKey |-> "key:1"]
      [] der = "der:2" ->
           [ok |-> TRUE, SerialNumber |-> 2, NotBefore |-> TimeUnix(2),
            NotAfter |-> TimeUnix(12), DNSNames |-> <<"B.EXAMPLE", "A.Example">>,
            CommonName |-> "c.example", PublicKey |-> "key:1"]
      [] der = "der:3" ->
           [ok |-> TRUE, SerialNumber |-> 20, NotBefore |-> TimeUnix(4),
            NotAfter |-> TimeUnix(14), DNSNames |-> <<"a.example">>,
            CommonName |-> "b.example", PublicKey |-> "key:2"]
      [] der = "der:4" ->
           [ok |-> TRUE, SerialNumber |-> 1, NotBefore |-> TimeUnix(5),
            NotAfter |-> TimeUnix(15), DNSNames |-> <<"c.example">>,
            CommonName |-> "c.example", PublicKey |-> "key:2"]
      [] OTHER -> ParseError

SerialOf(der) == SerialToString(ParseCertificate(der).SerialNumber)

\* core.IsAnyNilOrZero, its arguments grouped by type: a number is zero when
\* it is 0, a string when it is empty, a byte slice when it has no bytes
IsAnyNilOrZero(numbers, strings, bytes) ==
    \/ \E i \in 1..Len(numbers) : numbers[i] = 0
    \/ \E i \in 1..Len(strings) : Len(strings[i]) = 0
    \/ \E i \in 1..Len(bytes) : bytes[i] = EmptyDER

(***************************************************************************)
(* Requests.                                                               *)
(***************************************************************************)
\* 0 is the zero value of a number; 7 and 8 are numbers that are present
Numbers == {0, 7}

\* AddSerial does not look at the form of the serial
AddSerialRequests ==
    [Serial : {<<>>, SerialToString(1), SerialToString(2)}, RegID : Numbers,
     Created : {0, 7, 8}, Expires : Numbers]

\* the AddSerial requests that run next to the other operations
FewAddSerialRequests ==
    [Serial : {<<>>, SerialToString(1)}, RegID : Numbers, Created : {7}, Expires : {7}]

\* the requests whose numbers are all present, with every DER (one of them
\* with another issuer and another OCSP response than the rest), and the
\* requests that lack one number or all three, with a malformed and a valid DER
AddCertificateRequests ==
    [Der : DERs \ {"der:3"}, Issued : {7}, RegID : {7}, IssuerID : {7}, Ocsp : {"ocsp"}]
        \cup [Der : {"der:3"}, Issued : {7}, RegID : {7}, IssuerID : {8}, Ocsp : {"ocsp:8"}]
        \cup {r \in [Der : {BadDER, "der:1"}, Issued : Numbers, RegID : Numbers,
                      IssuerID : Numbers, Ocsp : {"ocsp"}] :
                 Cardinality({f \in {"Issued", "RegID", "IssuerID"} : r[f] = 0}) \in {1, 3}}

\* the requests that open a transaction, and one for the colliding certificate
CollisionRequests ==
    AddCertificateRequests
        \cup [Der : {CollidingDER}, Issued : {7}, RegID : {7}, IssuerID : {7}, Ocsp : {"ocsp"}]

WellFormedSerials == {SerialToString(n) : n \in {1, 2, 20, 33}}

GetSerials ==
    {<<>>, [i \in 1..(SerialLen - 1) |-> 1], [i \in 1..SerialLen |-> NonHex]}
        \cup WellFormedSerials

NoRequest == [Der |-> "none"]

(***************************************************************************)
(* State.                                                                  *)
(***************************************************************************)
VARIABLES
    serials,            \* table serials: set of rows, unique by serial
    precertificates,    \* table precertificates: rows in commit order
    certificateStatus,  \* table certificateStatus
    issuedNames,        \* table issuedNames
    keyHashToSerial,    \* table keyHashToSerial
    fqdnSets,           \* the name-set index: hashes of recorded name sets
    pc,                 \* per caller: "idle" or the next statement of its transaction
    req,                \* per caller: the AddCertificateRequest of its call in flight
    tx,                 \* per caller: the uncommitted writes of its transaction
    response,           \* the return of a call its caller has not taken yet
    raced,              \* history: the serials two transactions have raced on
    schema              \* the columns of certificateStatus the build knows

tables == <<precertificates, certificateStatus, issuedNames, keyHashToSerial, fqdnSets>>

vars == <<serials, precertificates, certificateStatus, issuedNames,
          keyHashToSerial, fqdnSets, pc, req, tx, response, raced, schema>>

EmptyTx ==
    [precertificates |-> <<>>, certificateStatus |-> <<>>, issuedNames |-> <<>>,
     keyHashToSerial |-> <<>>, fqdnSets |-> {}, isRenewal |-> FALSE]

TxSteps == {"count", "insertPrecert", "insertStatus", "checkFQDNSet",
            "addIssuedNames", "addKeyHash", "commit"}

NoCert == [Serial |-> <<>>]

Return(op, err, step, arg, val) ==
    [op |-> op, err |-> err, step |-> step, arg |-> arg, val |-> val]

NoResponse == Return("none", "none", "none", <<>>, NoCert)

\* the columns of certificateStatus, one for every key of the args map of
\* AddPrecertificate
StatusColumns ==
    <<"serial", "status", "ocspLastUpdated", "revokedDate", "revokedReason",
      "lastExpirationNagSent", "ocspResponse", "notAfter", "isExpired", "issuerID">>

\* a column list that lacks the last of them
FewerStatusColumns == SubSeq(StatusColumns, 1, Len(StatusColumns) - 1)

\* no return is waiting for its caller
Ready == response = NoResponse

Init ==
    /\ serials = {}
    /\ precertificates = <<>>
    /\ certificateStatus = <<>>
    /\ issuedNames = <<>>
    /\ keyHashToSerial = <<>>
    /\ fqdnSets = {}
    /\ pc = [p \in Procs |-> "idle"]
    /\ req = [p \in Procs |-> NoRequest]
    /\ tx = [p \in Procs |-> EmptyTx]
    /\ response = NoResponse
    /\ raced = {}
    /\ schema = StatusColumns

\* the store built with either column list
InitSchema ==
    /\ serials = {}
    /\ precertificates = <<>>
    /\ certificateStatus = <<>>
    /\ issuedNames = <<>>
    /\ keyHashToSerial = <<>>
    /\ fqdnSets = {}
    /\ pc = [p \in Procs |-> "idle"]
    /\ req = [p \in Procs |-> NoRequest]
    /\ tx = [p \in Procs |-> EmptyTx]
    /\ response = NoResponse
    /\ raced = {}
    /\ schema \in {StatusColumns, FewerStatusColumns}

(***************************************************************************)
(* AddSerial.                                                              *)
(***************************************************************************)
recordedSerialModel(r) ==
    [Serial |-> r.Serial, RegistrationID |-> r.RegID,
     Created |-> TimeUnix(r.Created), Expires |-> TimeUnix(r.Expires)]

\* AddSerialComplete without the test of req.Expires
AddSerialCompleteButExpires(r) ==
    ~IsAnyNilOrZero(<<r.Created, r.RegID>>, <<r.Serial>>, <<>>)

\* line 22: no required field of the request is nil or zero
AddSerialComplete(r) ==
    ~IsAnyNilOrZero(<<r.Created, r.Expires, r.RegID>>, <<r.Serial>>, <<>>)

\* the request is rejected before any statement is sent
AddSerialIncomplete(r) ==
    /\ Ready
    /\ ~AddSerialComplete(r)
    /\ response' = Return("AddSerial", "IncompleteRequest", "validate", r, NoCert)
    /\ UNCHANGED <<serials, tables, pc, req, tx>>

\* AddSerialInsert with a statement that replaces the row of the serial
AddSerialReplace(r) ==
    /\ Ready
    /\ AddSerialComplete(r)
    /\ \/ /\ serials' = {row \in serials : row.Serial # r.Serial}
                            \cup {recordedSerialModel(r)}
          /\ response' = Return("AddSerial", "ok", "done", r, NoCert)
       \/ /\ response' = Return("AddSerial", "StorageFailure", "insert", r, NoCert)
          /\ UNCHANGED serials
    /\ UNCHANGED <<tables, pc, req, tx>>

\* the INSERT: it fails on a row with the same serial (the uniqueness the
\* datastore enforces on serials.serial) or on a storage fault, and adds
\* the row otherwise
AddSerialInsert(r) ==
    /\ Ready
    /\ AddSerialComplete(r)
    /\ \/ /\ \E row \in serials : row.Serial = r.Serial
          /\ response' = Return("AddSerial", "StorageConflict", "insert", r, NoCert)
          /\ UNCHANGED serials
       \/ /\ response' = Return("AddSerial", "StorageFailure", "insert", r, NoCert)
          /\ UNCHANGED serials
       \/ /\ ~\E row \in serials : row.Serial = r.Serial
          /\ serials' = serials \cup {recordedSerialModel(r)}
          /\ response' = Return("AddSerial", "ok", "done", r, NoCert)
    /\ UNCHANGED <<tables, pc, req, tx>>

AddSerial(r) == AddSerialIncomplete(r) \/ AddSerialInsert(r)

(***************************************************************************)
(* The transaction handle.  A read sees the committed rows and the rows    *)
(* the transaction itself has written; a write stays with the transaction  *)
(* until it commits.                                                        *)
(***************************************************************************)
RowsWithSerial(rows, serial) ==
    LET Test(row) == row.serial = serial IN SelectSeq(rows, Test)

TxInsert(t, table, row) == [t EXCEPT ![table] = Append(@, row)]

\* SELECT count(1) FROM precertificates WHERE serial=?
TxCountPrecertificates(p, serial) ==
    Len(RowsWithSerial(precertificates \o tx[p].precertificates, serial))

(***************************************************************************)
(* AddPrecertificate.                                                      *)
(***************************************************************************)
\* precertificateModel with the issuance time taken from the certificate
precertificateModelIssuedFromCert(r) ==
    [serial |-> SerialOf(r.Der),
     RegistrationID |-> r.RegID,
     DER |-> r.Der,
     Issued |-> ParseCertificate(r.Der).NotBefore,
     Expires |-> ParseCertificate(r.Der).NotAfter]

\* lines 49-58: preCertModel
precertificateModel(r) ==
    [serial |-> SerialOf(r.Der),
     RegistrationID |-> r.RegID,
     DER |-> r.Der,
     Issued |-> TimeUnix(r.Issued),
     Expires |-> ParseCertificate(r.Der).NotAfter]

\* the columns of certificateStatus that certStatusFields() lists
certStatusFields == schema

\* the clock readings ssa.clk.Now() can give
ClockReadings == {TimeUnix(8)}

\* certStatusArgs with the issuer of the other requests in place of the
\* issuer of this one
certStatusArgsFixedIssuer(r, now) ==
    [serial |-> SerialOf(r.Der),
     status |-> "good",
     ocspLastUpdated |-> now,
     revokedDate |-> ZeroTime,
     revokedReason |-> 0,
     lastExpirationNagSent |-> ZeroTime,
     ocspResponse |-> r.Ocsp,
     notAfter |-> ParseCertificate(r.Der).NotAfter,
     isExpired |-> FALSE,
     issuerID |-> 7]

\* the args map of the INSERT INTO certificateStatus
certStatusArgs(r, now) ==
    [serial |-> SerialOf(r.Der),
     status |-> "good",
     ocspLastUpdated |-> now,
     revokedDate |-> ZeroTime,
     revokedReason |-> 0,
     lastExpirationNagSent |-> ZeroTime,
     ocspResponse |-> r.Ocsp,
     notAfter |-> ParseCertificate(r.Der).NotAfter,
     isExpired |-> FALSE,
     issuerID |-> r.IssuerID]

\* HashNames: the name set, lower-cased, whatever its order
HashNames(names) == {ToLower(names[i]) : i \in 1..Len(names)}

\* checkFQDNSetExists answering for a recorded set that holds the names, equal
\* or larger
checkFQDNSetExistsSuperset(p, names) ==
    \E set \in (fqdnSets \cup tx[p].fqdnSets) : HashNames(names) \subseteq set

\* checkFQDNSetExists, run through the transaction's SelectOne
checkFQDNSetExists(p, names) ==
    HashNames(names) \in (fqdnSets \cup tx[p].fqdnSets)

\* issuedNameRows with the renewal flag on the first row alone
issuedNameRowsFlagFirst(serial, parsed, isRenewal) ==
    [i \in 1..Len(parsed.DNSNames) |->
        [name |-> parsed.DNSNames[i], serial |-> serial,
         issuedAt |-> parsed.NotBefore, isRenewal |-> (isRenewal /\ i = 1)]]

\* the rows addIssuedNames inserts: one per DNS name of the certificate
issuedNameRows(serial, parsed, isRenewal) ==
    [i \in 1..Len(parsed.DNSNames) |->
        [name |-> parsed.DNSNames[i], serial |-> serial,
         issuedAt |-> parsed.NotBefore, isRenewal |-> isRenewal]]

\* addIssuedNames: the rows, and the name set recorded as a side effect
addIssuedNames(t, serial, parsed, isRenewal) ==
    [t EXCEPT !.issuedNames = @ \o issuedNameRows(serial, parsed, isRenewal),
              !.fqdnSets = @ \cup {HashNames(parsed.DNSNames)}]

\* the fingerprint of a public key
KeyFingerprint(key) == <<"sha256", key>>

\* addKeyHash
addKeyHash(t, serial, parsed) ==
    TxInsert(t, "keyHashToSerial",
             [fingerprint |-> KeyFingerprint(parsed.PublicKey), serial |-> serial,
              issuedAt |-> parsed.NotBefore])

InFlight == {p \in Procs : pc[p] # "idle"}

\* the call returns err and its transaction, if any, is rolled back
Finish(p, err, step) ==
    /\ response' = Return("AddPrecertificate", err, step, req[p], NoCert)
    /\ pc' = [pc EXCEPT ![p] = "idle"]
    /\ req' = [req EXCEPT ![p] = NoRequest]
    /\ tx' = [tx EXCEPT ![p] = EmptyTx]

\* AddCertificateComplete without the test of req.IssuerID
AddCertificateCompleteButIssuerID(r) ==
    ~IsAnyNilOrZero(<<r.Issued, r.RegID>>, <<>>, <<r.Der>>)

\* line 42: no required field of the request is nil or zero
AddCertificateComplete(r) ==
    ~IsAnyNilOrZero(<<r.Issued, r.RegID, r.IssuerID>>, <<>>, <<r.Der>>)

\* lines 42-44: a required field is nil or zero
AddPrecertificateIncomplete(r) ==
    /\ Ready
    /\ ~AddCertificateComplete(r)
    /\ response' = Return("AddPrecertificate", "IncompleteRequest", "validate", r, NoCert)
    /\ UNCHANGED <<serials, tables, pc, req, tx>>

\* lines 45-48: the DER bytes do not parse
AddPrecertificateMalformed(r) ==
    /\ Ready
    /\ AddCertificateComplete(r)
    /\ ~ParseCertificate(r.Der).ok
    /\ response' = Return("AddPrecertificate", "MalformedInput", "parse", r, NoCert)
    /\ UNCHANGED <<serials, tables, pc, req, tx>>

\* lines 49-60: the request is valid and db.WithTransaction opens a
\* transaction.  The callers are alike: the call takes the first idle one
AddPrecertificateBegin(p, r) ==
    /\ Ready
    /\ pc[p] = "idle"
    /\ \A q \in Procs : pc[q] = "idle" => p <= q
    /\ AddCertificateComplete(r)
    /\ ParseCertificate(r.Der).ok
    /\ Len(precertificates) + Cardinality(InFlight) < MaxRows
    /\ pc' = [pc EXCEPT ![p] = "count"]
    /\ req' = [req EXCEPT ![p] = r]
    /\ tx' = [tx EXCEPT ![p] = EmptyTx]
    /\ UNCHANGED <<serials, tables, response>>

\* TxCount with the duplicate check left out
TxCountNoCheck(p) ==
    /\ Ready
    /\ pc[p] = "count"
    /\ pc' = [pc EXCEPT ![p] = "insertPrecert"]
    /\ UNCHANGED <<serials, tables, req, tx, response>>

\* TxCount with a look at the serials table: a reserved serial counts as a
\* recorded one
TxCountRejectsReserved(p) ==
    /\ Ready
    /\ pc[p] = "count"
    /\ IF \/ TxCountPrecertificates(p, SerialOf(req[p].Der)) > 0
          \/ \E row \in serials : row.Serial = SerialOf(req[p].Der)
         THEN Finish(p, "Duplicate", "count")
         ELSE /\ pc' = [pc EXCEPT ![p] = "insertPrecert"]
              /\ UNCHANGED <<req, tx, response>>
    /\ UNCHANGED <<serials, tables>>

\* TxCount with the rows counted by the name set of their certificate
TxCountByNames(p) ==
    /\ Ready
    /\ pc[p] = "count"
    /\ IF \E i \in 1..Len(precertificates) :
            HashNames(ParseCertificate(precertificates[i].DER).DNSNames)
               = HashNames(ParseCertificate(req[p].Der).DNSNames)
         THEN Finish(p, "Duplicate", "count")
         ELSE /\ pc' = [pc EXCEPT ![p] = "insertPrecert"]
              /\ UNCHANGED <<req, tx, response>>
    /\ UNCHANGED <<serials, tables>>

\* lines 61-70: the count of precertificates rows with this serial
TxCount(p) ==
    /\ Ready
    /\ pc[p] = "count"
    /\ IF TxCountPrecertificates(p, SerialOf(req[p].Der)) > 0
         THEN Finish(p, "Duplicate", "count")
         ELSE /\ pc' = [pc EXCEPT ![p] = "insertPrecert"]
              /\ UNCHANGED <<req, tx, response>>
    /\ UNCHANGED <<serials, tables>>

\* TxInsertPrecert with the row inserted through ssa.dbMap, outside the
\* transaction
TxInsertPrecertOutsideTx(p) ==
    /\ Ready
    /\ pc[p] = "insertPrecert"
    /\ precertificates' = Append(precertificates, precertificateModel(req[p]))
    /\ pc' = [pc EXCEPT ![p] = "insertStatus"]
    /\ UNCHANGED <<serials, certificateStatus, issuedNames, keyHashToSerial,
                   fqdnSets, req, tx, response>>

\* TxInsertPrecert with the name set of the certificate recorded at once,
\* ahead of the renewal query
TxInsertPrecertRecordsNames(p) ==
    /\ Ready
    /\ pc[p] = "insertPrecert"
    /\ tx' = [tx EXCEPT ![p] =
                 [TxInsert(@, "precertificates", precertificateModel(req[p]))
                    EXCEPT !.fqdnSets =
                       @ \cup {HashNames(ParseCertificate(req[p].Der).DNSNames)}]]
    /\ pc' = [pc EXCEPT ![p] = "insertStatus"]
    /\ UNCHANGED <<serials, tables, req, response>>

\* lines 71-73: txWithCtx.Insert(preCertModel)
TxInsertPrecert(p) ==
    /\ Ready
    /\ pc[p] = "insertPrecert"
    /\ tx' = [tx EXCEPT ![p] = TxInsert(@, "precertificates", precertificateModel(req[p]))]
    /\ pc' = [pc EXCEPT ![p] = "insertStatus"]
    /\ UNCHANGED <<serials, tables, req, response>>

\* TxInsertStatus with the row inserted through ssa.dbMap, outside the
\* transaction
TxInsertStatusOutsideTx(p) ==
    /\ Ready
    /\ pc[p] = "insertStatus"
    /\ \E now \in ClockReadings :
         certificateStatus' = Append(certificateStatus, certStatusArgs(req[p], now))
    /\ pc' = [pc EXCEPT ![p] = "checkFQDNSet"]
    /\ UNCHANGED <<serials, precertificates, issuedNames, keyHashToSerial,
                   fqdnSets, req, tx, response>>

\* TxInsertStatus without the comparison of the args map with the field list
TxInsertStatusUnchecked(p) ==
    /\ Ready
    /\ pc[p] = "insertStatus"
    /\ \E now \in ClockReadings :
         tx' = [tx EXCEPT ![p] = TxInsert(@, "certificateStatus", certStatusArgs(req[p], now))]
    /\ pc' = [pc EXCEPT ![p] = "checkFQDNSet"]
    /\ UNCHANGED <<serials, tables, req, response>>

\* lines 75-103: the certificateStatus row
TxInsertStatus(p) ==
    /\ Ready
    /\ pc[p] = "insertStatus"
    /\ \E now \in ClockReadings :
         LET args == certStatusArgs(req[p], now) IN
         IF Cardinality(DOMAIN args) > Len(certStatusFields)
           THEN Finish(p, "SchemaMismatch", "insertStatus")
           ELSE /\ tx' = [tx EXCEPT ![p] = TxInsert(@, "certificateStatus", args)]
                /\ pc' = [pc EXCEPT ![p] = "checkFQDNSet"]
                /\ UNCHANGED <<req, response>>
    /\ UNCHANGED <<serials, tables>>

\* TxCheckFQDNSet with the Subject Common Name in place of the DNS names
TxCheckFQDNSetByCommonName(p) ==
    /\ Ready
    /\ pc[p] = "checkFQDNSet"
    /\ tx' = [tx EXCEPT ![p].isRenewal =
                 checkFQDNSetExists(p, <<ParseCertificate(req[p].Der).CommonName>>)]
    /\ pc' = [pc EXCEPT ![p] = "addIssuedNames"]
    /\ UNCHANGED <<serials, tables, req, response>>

\* lines 111-116: isRenewal, from the DNS names of the certificate alone
TxCheckFQDNSet(p) ==
    /\ Ready
    /\ pc[p] = "checkFQDNSet"
    /\ tx' = [tx EXCEPT ![p].isRenewal =
                 checkFQDNSetExists(p, ParseCertificate(req[p].Der).DNSNames)]
    /\ pc' = [pc EXCEPT ![p] = "addIssuedNames"]
    /\ UNCHANGED <<serials, tables, req, response>>

\* lines 117-119: addIssuedNames(txWithCtx, parsed, isRenewal)
TxAddIssuedNames(p) ==
    /\ Ready
    /\ pc[p] = "addIssuedNames"
    /\ tx' = [tx EXCEPT ![p] = addIssuedNames(@, SerialOf(req[p].Der),
                                   ParseCertificate(req[p].Der), @.isRenewal)]
    /\ pc' = [pc EXCEPT ![p] = "addKeyHash"]
    /\ UNCHANGED <<serials, tables, req, response>>

\* lines 120-122: addKeyHash(txWithCtx, parsed)
TxAddKeyHash(p) ==
    /\ Ready
    /\ pc[p] = "addKeyHash"
    /\ tx' = [tx EXCEPT ![p] = addKeyHash(@, SerialOf(req[p].Der),
                                   ParseCertificate(req[p].Der))]
    /\ pc' = [pc EXCEPT ![p] = "commit"]
    /\ UNCHANGED <<serials, tables, req, response>>

\* lines 124-129: the function returns nil, the transaction commits and the
\* call returns the empty message
TxCommit(p) ==
    /\ Ready
    /\ pc[p] = "commit"
    /\ precertificates' = precertificates \o tx[p].precertificates
    /\ certificateStatus' = certificateStatus \o tx[p].certificateStatus
    /\ issuedNames' = issuedNames \o tx[p].issuedNames
    /\ keyHashToSerial' = keyHashToSerial \o tx[p].keyHashToSerial
    /\ fqdnSets' = fqdnSets \cup tx[p].fqdnSets
    /\ Finish(p, "ok", "done")
    /\ UNCHANGED serials

\* TxFail with the transaction started again in place of the return
TxFailRetry(p) ==
    /\ Ready
    /\ pc[p] \in TxSteps
    /\ pc' = [pc EXCEPT ![p] = "count"]
    /\ tx' = [tx EXCEPT ![p] = EmptyTx]
    /\ UNCHANGED <<serials, tables, req, response>>

\* a statement of the transaction, or its commit, fails (a storage fault, or
\* the caller's context is cancelled): the function returns the error, the
\* transaction rolls back and the call returns the error
TxFail(p) ==
    /\ Ready
    /\ pc[p] \in TxSteps
    /\ Finish(p, "StorageFailure", pc[p])
    /\ UNCHANGED <<serials, tables>>

(***************************************************************************)
(* GetPrecertificate.                                                      *)
(***************************************************************************)
\* bgrpc.CertToPB
CertToPB(cert) ==
    [RegistrationID |-> cert.RegistrationID, Serial |-> cert.serial,
     Der |-> cert.DER, Issued |-> UnixNano(cert.Issued),
     Expires |-> UnixNano(cert.Expires)]

\* SelectPrecertificate through ssa.dbMap: the rows with this serial
SelectPrecertificate(serial) == RowsWithSerial(precertificates, serial)

\* every uncommitted precertificates row of the open transactions
RECURSIVE Uncommitted(_)
Uncommitted(procs) ==
    IF procs = {} THEN <<>>
    ELSE LET p == CHOOSE q \in procs : TRUE
         IN tx[p].precertificates \o Uncommitted(procs \ {p})

\* GetPrecertificate with a read that sees the uncommitted rows
GetPrecertificateDirty(serial) ==
    /\ Ready
    /\ IF Len(serial) = 0
         THEN response' = Return("GetPrecertificate", "IncompleteRequest", "validate", serial, NoCert)
       ELSE IF ~ValidSerial(serial)
         THEN response' = Return("GetPrecertificate", "InvalidSerial", "validate", serial, NoCert)
       ELSE LET rows == RowsWithSerial(precertificates \o Uncommitted(Procs), serial) IN
         \/ /\ Len(rows) = 0
            /\ response' = Return("GetPrecertificate", "NotFound", "select", serial, NoCert)
         \/ \E i \in 1..Len(rows) :
              response' = Return("GetPrecertificate", "ok", "done", serial, CertToPB(rows[i]))
         \/ response' = Return("GetPrecertificate", "StorageFailure", "select", serial, NoCert)
    /\ UNCHANGED <<serials, tables, pc, req, tx>>

\* GetPrecertificate with the rows it returns taken out of the table
GetPrecertificateTakes(serial) ==
    /\ Ready
    /\ IF Len(serial) = 0
         THEN /\ response' = Return("GetPrecertificate", "IncompleteRequest", "validate", serial, NoCert)
              /\ UNCHANGED precertificates
       ELSE IF ~ValidSerial(serial)
         THEN /\ response' = Return("GetPrecertificate", "InvalidSerial", "validate", serial, NoCert)
              /\ UNCHANGED precertificates
       ELSE LET rows == SelectPrecertificate(serial)
                Other(row) == row.serial # serial IN
         \/ /\ Len(rows) = 0
            /\ response' = Return("GetPrecertificate", "NotFound", "select", serial, NoCert)
            /\ UNCHANGED precertificates
         \/ /\ \E i \in 1..Len(rows) :
                 response' = Return("GetPrecertificate", "ok", "done", serial, CertToPB(rows[i]))
            /\ precertificates' = SelectSeq(precertificates, Other)
         \/ /\ response' = Return("GetPrecertificate", "StorageFailure", "select", serial, NoCert)
            /\ UNCHANGED precertificates
    /\ UNCHANGED <<serials, certificateStatus, issuedNames, keyHashToSerial,
                   fqdnSets, pc, req, tx>>

\* lines 134-152
GetPrecertificate(serial) ==
    /\ Ready
    /\ IF Len(serial) = 0
         THEN response' = Return("GetPrecertificate", "IncompleteRequest", "validate", serial, NoCert)
       ELSE IF ~ValidSerial(serial)
         THEN response' = Return("GetPrecertificate", "InvalidSerial", "validate", serial, NoCert)
       ELSE LET rows == SelectPrecertificate(serial) IN
         \/ /\ Len(rows) = 0
            /\ response' = Return("GetPrecertificate", "NotFound", "select", serial, NoCert)
         \/ \E i \in 1..Len(rows) :
              response' = Return("GetPrecertificate", "ok", "done", serial, CertToPB(rows[i]))
         \/ response' = Return("GetPrecertificate", "StorageFailure", "select", serial, NoCert)
    /\ UNCHANGED <<serials, tables, pc, req, tx>>

\* the caller takes the return of its call.  No operation reads response, so
\* taking every return before the next step leaves out no behaviour of the
\* tables and the transactions
Deliver ==
    /\ ~Ready
    /\ response' = NoResponse
    /\ UNCHANGED <<serials, tables, pc, req, tx>>

Operation ==
    \/ \E r \in FewAddSerialRequests : AddSerial(r)
    \/ \E r \in AddCertificateRequests :
         \/ AddPrecertificateIncomplete(r)
         \/ AddPrecertificateMalformed(r)
         \/ \E p \in Procs : AddPrecertificateBegin(p, r)
    \/ \E p \in Procs :
         \/ TxCount(p)
         \/ TxInsertPrecert(p)
         \/ TxInsertStatus(p)
         \/ TxCheckFQDNSet(p)
         \/ TxAddIssuedNames(p)
         \/ TxAddKeyHash(p)
         \/ TxCommit(p)
         \/ TxFail(p)
    \/ \E s \in GetSerials : GetPrecertificate(s)
    \/ Deliver

\* the steps after the count statement of a transaction
AfterCount == TxSteps \ {"count"}

\* the serials for which two transactions are past their count statement
Racing ==
    {SerialOf(req[p].Der) : p \in
        {p \in Procs : /\ pc[p] \in AfterCount
                       /\ \E q \in Procs \ {p} :
                            /\ pc[q] \in AfterCount
                            /\ SerialOf(req[q].Der) = SerialOf(req[p].Der)}}

\* the serials with no precertificates row and no transaction past its count
\* statement: a race on such a serial has left nothing behind
Settled ==
    {s \in {SerialOf(der) : der \in ValidDERs} :
        /\ Len(RowsWithSerial(precertificates, s)) = 0
        /\ ~\E p \in Procs : pc[p] \in AfterCount /\ SerialOf(req[p].Der) = s}

\* the operations, the history left alone
Next == Operation /\ UNCHANGED <<raced, schema>>

Spec == Init /\ [][Next]_vars

\* AddSerial with all its requests, next to the lookups
NextSerial ==
    /\ \/ \E r \in AddSerialRequests : AddSerial(r)
       \/ \E s \in GetSerials : GetPrecertificate(s)
       \/ Deliver
    /\ UNCHANGED <<raced, schema>>

SpecSerial == Init /\ [][NextSerial]_vars

\* the calls of AddPrecertificate that open a transaction, statement by
\* statement, with the history of the races kept
NextRace ==
    /\ \/ \E r \in AddCertificateRequests : \E p \in Procs :
            AddPrecertificateBegin(p, r)
       \/ \E p \in Procs :
            \/ TxCount(p)
            \/ TxInsertPrecert(p)
            \/ TxInsertStatus(p)
            \/ TxCheckFQDNSet(p)
            \/ TxAddIssuedNames(p)
            \/ TxAddKeyHash(p)
            \/ TxCommit(p)
            \/ TxFail(p)
       \/ Deliver
    /\ raced' = (raced \cup Racing') \ Settled'
    /\ UNCHANGED schema

SpecRace == Init /\ [][NextRace]_vars

\* the calls of AddPrecertificate that open a transaction, statement by
\* statement
NextTx ==
    /\ \/ \E r \in AddCertificateRequests : \E p \in Procs :
            AddPrecertificateBegin(p, r)
       \/ \E p \in Procs :
            \/ TxCount(p)
            \/ TxInsertPrecert(p)
            \/ TxInsertStatus(p)
            \/ TxCheckFQDNSet(p)
            \/ TxAddIssuedNames(p)
            \/ TxAddKeyHash(p)
            \/ TxCommit(p)
            \/ TxFail(p)
       \/ Deliver
    /\ UNCHANGED <<raced, schema>>

SpecTx == Init /\ [][NextTx]_vars

\* the transactions, with a certificate whose serial collides with another's
NextCollision ==
    /\ \/ \E r \in CollisionRequests : \E p \in Procs :
            AddPrecertificateBegin(p, r)
       \/ \E p \in Procs :
            \/ TxCount(p)
            \/ TxInsertPrecert(p)
            \/ TxInsertStatus(p)
            \/ TxCheckFQDNSet(p)
            \/ TxAddIssuedNames(p)
            \/ TxAddKeyHash(p)
            \/ TxCommit(p)
            \/ TxFail(p)
       \/ Deliver
    /\ UNCHANGED <<raced, schema>>

SpecCollision == Init /\ [][NextCollision]_vars

\* the next statement of the transaction of caller p, its commit, or the
\* failure of either
TxStep(p) ==
    /\ \/ TxCount(p)
       \/ TxInsertPrecert(p)
       \/ TxInsertStatus(p)
       \/ TxCheckFQDNSet(p)
       \/ TxAddIssuedNames(p)
       \/ TxAddKeyHash(p)
       \/ TxCommit(p)
       \/ TxFail(p)
    /\ UNCHANGED <<raced, schema>>

\* the transactions with their scheduling: a return is taken by its caller,
\* and every statement of a call returns, with its result or with an error
\* (the context of the call carries the deadline), so that the goroutine of
\* the call goes on to its next statement
SpecLive ==
    /\ Init
    /\ [][NextTx]_vars
    /\ WF_vars(Deliver /\ UNCHANGED <<raced, schema>>)
    /\ \A p \in Procs : SF_vars(TxStep(p))

\* the transactions on a store built with either column list
SpecSchema == InitSchema /\ [][NextTx]_vars

(***************************************************************************)
(* Properties.                                                             *)
(***************************************************************************)
AllSerials == {SerialOf(der) : der \in ValidDERs}

CountRows(rows, serial) == Len(RowsWithSerial(rows, serial))

DNSNamesOf(row) == ParseCertificate(row.DER).DNSNames

RECURSIVE NameCount(_)
\* the number of DNS names of the certificates of these precertificates rows
NameCount(rows) ==
    IF rows = <<>> THEN 0 ELSE Len(DNSNamesOf(Head(rows))) + NameCount(Tail(rows))

SerialsOfRows(rows) == {rows[i].serial : i \in 1..Len(rows)}

\* C1: in every reachable state, for every serial, the committed tables hold
\* either no row of the serial or all of them: as many certificateStatus rows
\* and keyHashToSerial rows as precertificates rows, and an issuedNames row
\* for every DNS name of every precertificates row, and no other.
C1_AllOrNothing ==
    /\ \A s \in AllSerials :
          LET P == RowsWithSerial(precertificates, s) IN
            /\ CountRows(certificateStatus, s) = Len(P)
            /\ CountRows(keyHashToSerial, s) = Len(P)
            /\ CountRows(issuedNames, s) = NameCount(P)
            /\ \A i \in 1..Len(P) : \A j \in 1..Len(DNSNamesOf(P[i])) :
                  \E k \in 1..Len(issuedNames) :
                     /\ issuedNames[k].serial = s
                     /\ issuedNames[k].name = DNSNamesOf(P[i])[j]
    /\ SerialsOfRows(precertificates) \cup SerialsOfRows(certificateStatus)
          \cup SerialsOfRows(issuedNames) \cup SerialsOfRows(keyHashToSerial)
            \subseteq AllSerials

\* a call failed at its last statement, after its three other inserts, next
\* to a committed issuance: the failed serial has no row, the other has all
C1_Witness ==
    /\ response.op = "AddPrecertificate"
    /\ response.err = "StorageFailure"
    /\ response.step = "addKeyHash"
    /\ response.arg.Der = "der:3"
    /\ CountRows(precertificates, SerialOf("der:3")) = 0
    /\ CountRows(precertificates, SerialOf("der:1")) = 1
    /\ CountRows(issuedNames, SerialOf("der:1")) = 2
    /\ serials # {}

RowsWithDER(rows, der) == LET Test(row) == row.DER = der IN SelectSeq(rows, Test)

\* C2: a call whose count statement runs when a precertificates row with the
\* same DER bytes is committed ends there: it returns Duplicate (or the error
\* of the count statement), its transaction is dropped and every table is
\* left as it was; a call returns success only with its row recorded, and
\* Duplicate only when a row of that serial is recorded.
C2_SecondCallIsDuplicate ==
    /\ [][\A p \in Procs :
            (/\ pc[p] = "count"
             /\ pc'[p] # "count"
             /\ Len(RowsWithDER(precertificates, req[p].Der)) > 0)
            => /\ pc'[p] = "idle"
               /\ tx'[p] = EmptyTx
               /\ response'.op = "AddPrecertificate"
               /\ response'.arg = req[p]
               /\ response'.step = "count"
               /\ response'.err \in {"Duplicate", "StorageFailure"}
               /\ tables' = tables]_vars
    /\ [](response.op = "AddPrecertificate" =>
            /\ response.err = "ok" =>
                  Len(RowsWithDER(precertificates, response.arg.Der)) > 0
            /\ response.err = "Duplicate" =>
                  CountRows(precertificates, SerialOf(response.arg.Der)) > 0)

\* the second of two calls with the same DER bytes has returned Duplicate, and
\* the tables hold the rows of the first call alone
C2_Witness ==
    /\ response.op = "AddPrecertificate"
    /\ response.err = "Duplicate"
    /\ response.arg.Der = "der:1"
    /\ Len(precertificates) = 1
    /\ Len(RowsWithDER(precertificates, "der:1")) = 1
    /\ Len(certificateStatus) = 1
    /\ Len(issuedNames) = 2
    /\ Len(keyHashToSerial) = 1

\* C3 as stated: under any interleaving of the transactions, a serial has at
\* most one precertificates row and at most one certificateStatus row.
C3_AtMostOnePerSerial ==
    \A s \in AllSerials :
        /\ CountRows(precertificates, s) <= 1
        /\ CountRows(certificateStatus, s) <= 1

\* C3 as amended: a serial has at most one precertificates row and at most
\* one certificateStatus row unless two transactions for the serial were past
\* their count statement at the same time.
C3_AtMostOneUnlessRaced ==
    \A s \in AllSerials \ raced :
        /\ CountRows(precertificates, s) <= 1
        /\ CountRows(certificateStatus, s) <= 1

\* a serial has its one row, committed by a transaction that did not race,
\* and a second transaction for the serial is open, its count statement next
C3_Witness ==
    /\ raced = {}
    /\ CountRows(precertificates, SerialOf("der:2")) = 1
    /\ CountRows(certificateStatus, SerialOf("der:2")) = 1
    /\ \E p \in Procs : pc[p] = "count" /\ req[p].Der = "der:2"

SameNameSet(der) ==
    CASE der \in {"der:1", "der:2"} -> {"der:1", "der:2"}
      [] OTHER -> {der}

CommittedDERs == {precertificates[i].DER : i \in 1..Len(precertificates)}

\* C5: the renewal query of a call answers whether an issuance with the same
\* name set is committed: false for the first issuance for {a.example,
\* b.example}, true for a later one with another serial and the same names,
\* false for {a.example} alone after issuances for other sets; and every
\* issuedNames row the call then writes carries that answer.
C5_RenewalDetection ==
    [][\A p \in Procs :
         /\ (pc[p] = "checkFQDNSet" /\ pc'[p] = "addIssuedNames")
            => tx'[p].isRenewal = (SameNameSet(req[p].Der) \cap CommittedDERs # {})
         /\ (pc[p] = "addIssuedNames" /\ pc'[p] = "addKeyHash")
            => /\ Len(tx'[p].issuedNames) = Len(ParseCertificate(req[p].Der).DNSNames)
               /\ \A i \in 1..Len(tx'[p].issuedNames) :
                    tx'[p].issuedNames[i].isRenewal = tx[p].isRenewal
         /\ (pc[p] = "commit" /\ pc'[p] = "idle" /\ response'.err = "ok")
            => issuedNames' = issuedNames \o tx[p].issuedNames]_vars

\* the issuance for {a.example, b.example} is recorded as no renewal and the
\* later one with another serial and the same names as a renewal
C5_Witness ==
    /\ Len(issuedNames) = 4
    /\ \A i \in 1..2 : /\ issuedNames[i].serial = SerialOf("der:1")
                        /\ issuedNames[i].isRenewal = FALSE
    /\ \A i \in 3..4 : /\ issuedNames[i].serial = SerialOf("der:2")
                        /\ issuedNames[i].isRenewal = TRUE
    /\ {issuedNames[i].name : i \in 1..2} = {"a.example", "b.example"}

\* a request of AddSerial lacks a field
LacksField(r) == r.Serial = <<>> \/ r.RegID = 0 \/ r.Created = 0 \/ r.Expires = 0

\* the row of the serials table a request of AddSerial stands for
SerialRecord(r) ==
    [Serial |-> r.Serial, RegistrationID |-> r.RegID,
     Created |-> [unixNano |-> r.Created], Expires |-> [unixNano |-> r.Expires]]

HasSerialRecord(serial) == \E row \in serials : row.Serial = serial

\* C6 as stated: AddSerial returns IncompleteRequest when a field is missing
\* or zero and succeeds, with the record in the serials table, when all four
\* are present (an injected storage fault apart).
C6_CompleteRequestSucceeds ==
    (response.op = "AddSerial" /\ response.err # "StorageFailure")
    => IF LacksField(response.arg)
         THEN response.err = "IncompleteRequest"
         ELSE response.err = "ok" /\ SerialRecord(response.arg) \in serials

\* C6 as amended: AddSerial with a field missing or zero returns
\* IncompleteRequest and inserts nothing; with all four present and no record
\* of the serial yet it succeeds, a storage fault apart, and the record of the
\* request is in the serials table; with a record of the serial present it
\* fails and inserts nothing.
C6_CompleteRequestOfNewSerialSucceeds ==
    [][(response' # response /\ response'.op = "AddSerial")
       => LET r == response'.arg IN
          IF LacksField(r)
            THEN response'.err = "IncompleteRequest" /\ serials' = serials
          ELSE IF HasSerialRecord(r.Serial)
            THEN /\ response'.err \in {"StorageConflict", "StorageFailure"}
                 /\ serials' = serials
          ELSE \/ response'.err = "ok" /\ serials' = serials \cup {SerialRecord(r)}
               \/ response'.err = "StorageFailure" /\ serials' = serials]_vars

\* a complete request for a new serial has succeeded, next to the record of
\* another serial, and its record is in the table
C6_Witness ==
    /\ response.op = "AddSerial"
    /\ response.err = "ok"
    /\ response.arg.Serial = SerialToString(2)
    /\ SerialRecord(response.arg) \in serials
    /\ HasSerialRecord(SerialToString(1))

\* C7: the serials table never holds two records of one serial; a record,
\* once there, stays as it is; and AddSerial for a serial that has a record
\* fails with a storage-layer error.
C7_SerialsUnique ==
    /\ [](\A r1 \in serials : \A r2 \in serials : r1.Serial = r2.Serial => r1 = r2)
    /\ [][serials \subseteq serials']_vars
    /\ [][(/\ response' # response
           /\ response'.op = "AddSerial"
           /\ ~LacksField(response'.arg)
           /\ HasSerialRecord(response'.arg.Serial))
          => response'.err \in {"StorageConflict", "StorageFailure"}]_vars

\* AddSerial for a serial that has a record, with another creation time, has
\* failed on the uniqueness of the serial, and the record is as it was
C7_Witness ==
    /\ response.op = "AddSerial"
    /\ response.err = "StorageConflict"
    /\ response.arg.Serial = SerialToString(1)
    /\ response.arg.Created = 8
    /\ \E row \in serials : row.Serial = SerialToString(1) /\ row.Created = [unixNano |-> 7]

\* C8: GetPrecertificate with an empty serial returns IncompleteRequest and
\* with a malformed one the validation error, whatever the tables hold and
\* never a storage error; with a well-formed serial that has no
\* precertificates row it returns NotFound; with a serial that has one it
\* returns a record whose DER bytes, registration ID, issued time and expiry
\* are those of a committed row of the serial (a storage fault apart), and a
\* committed row holds what the request of its AddPrecertificate call gave.
C8_Lookup ==
    /\ [](response.op = "GetPrecertificate" =>
            LET s == response.arg IN
            IF s = <<>> THEN response.err = "IncompleteRequest"
            ELSE IF s \notin WellFormedSerials THEN response.err = "InvalidSerial"
            ELSE IF CountRows(precertificates, s) = 0
              THEN response.err \in {"NotFound", "StorageFailure"}
            ELSE \/ response.err = "StorageFailure"
                 \/ /\ response.err = "ok"
                    /\ \E i \in 1..Len(precertificates) :
                         LET row == precertificates[i] IN
                           /\ row.serial = s
                           /\ response.val.Serial = s
                           /\ response.val.Der = row.DER
                           /\ response.val.RegistrationID = row.RegistrationID
                           /\ response.val.Issued = row.Issued.unixNano
                           /\ response.val.Expires = row.Expires.unixNano)
    /\ [][\A p \in Procs :
            (pc[p] = "commit" /\ pc'[p] = "idle" /\ response'.err = "ok")
            => /\ Len(precertificates') = Len(precertificates) + 1
               /\ SubSeq(precertificates', 1, Len(precertificates)) = precertificates
               /\ LET row == precertificates'[Len(precertificates')] IN
                    /\ row.DER = req[p].Der
                    /\ row.RegistrationID = req[p].RegID
                    /\ row.Issued.unixNano = req[p].Issued
                    /\ row.Expires = ParseCertificate(req[p].Der).NotAfter
                    /\ row.serial = SerialToString(ParseCertificate(req[p].Der).SerialNumber)]_vars

\* the lookup of the serial of a committed issuance has returned its record
C8_Witness ==
    /\ response.op = "GetPrecertificate"
    /\ response.err = "ok"
    /\ response.arg = SerialToString(20)
    /\ response.val = [RegistrationID |-> 7, Serial |-> SerialToString(20),
                       Der |-> "der:3", Issued |-> 7, Expires |-> 14]
    /\ Len(precertificates) = 2

\* a request of AddPrecertificate lacks a required field
LacksIssuanceField(r) ==
    r.Der = EmptyDER \/ r.Issued = 0 \/ r.RegID = 0 \/ r.IssuerID = 0

\* C9: AddPrecertificate with malformed DER bytes returns MalformedInput and
\* with a required field absent IncompleteRequest (with both, one of the
\* two); either way the call returns at once: no transaction is opened and
\* the tables, empty or not, are as they were.
C9_RejectedBeforeTransaction ==
    [][(/\ response' # response
        /\ response'.op = "AddPrecertificate"
        /\ (LacksIssuanceField(response'.arg) \/ response'.arg.Der \in {BadDER, EmptyDER}))
       => /\ IF ~LacksIssuanceField(response'.arg)
               THEN response'.err = "MalformedInput"
             ELSE IF response'.arg.Der # BadDER
               THEN response'.err = "IncompleteRequest"
             ELSE response'.err \in {"IncompleteRequest", "MalformedInput"}
          /\ response'.step \in {"validate", "parse"}
          /\ tables' = tables
          /\ serials' = serials
          /\ pc' = pc
          /\ tx' = tx
          /\ \A p \in Procs : pc[p] = "idle" \/ req[p] # response'.arg]_vars

\* a call with malformed DER bytes has returned MalformedInput and the four
\* tables hold no row
C9_Witness ==
    /\ response.op = "AddPrecertificate"
    /\ response.err = "MalformedInput"
    /\ response.arg.Der = BadDER
    /\ precertificates = <<>>
    /\ certificateStatus = <<>>
    /\ issuedNames = <<>>
    /\ keyHashToSerial = <<>>

\* the serials of the uncommitted precertificates rows of open transactions
UncommittedSerials ==
    UNION {SerialsOfRows(tx[p].precertificates) : p \in Procs}

\* C10: GetPrecertificate returns a record only of a serial that has a
\* committed precertificates row; for a serial whose only precertificates
\* row is the uncommitted one of an open transaction it returns NotFound.
C10_NoUncommittedRead ==
    (response.op = "GetPrecertificate" /\ response.err \notin {"IncompleteRequest", "InvalidSerial"})
    => /\ response.err = "ok" => CountRows(precertificates, response.arg) > 0
       /\ (response.arg \in UncommittedSerials /\ CountRows(precertificates, response.arg) = 0)
            => response.err \in {"NotFound", "StorageFailure"}

\* a lookup has returned NotFound for the serial of an open transaction that
\* has inserted its precertificate and is about to commit
C10_Witness ==
    /\ response.op = "GetPrecertificate"
    /\ response.err = "NotFound"
    /\ response.arg = SerialToString(1)
    /\ \E p \in Procs : pc[p] = "commit" /\ req[p].Der = "der:1"
                         /\ Len(tx[p].precertificates) = 1

\* the statement that follows a statement of the transaction
StepAfter ==
    [step \in TxSteps \ {"commit"} |->
        CASE step = "count" -> "insertPrecert"
          [] step = "insertPrecert" -> "insertStatus"
          [] step = "insertStatus" -> "checkFQDNSet"
          [] step = "checkFQDNSet" -> "addIssuedNames"
          [] step = "addIssuedNames" -> "addKeyHash"
          [] step = "addKeyHash" -> "commit"]

\* C11: a call that has opened a transaction comes to its end; a step of an
\* open transaction either goes on to the next statement, or commits (at the
\* commit step: the writes of the transaction are appended to the tables and
\* the call returns success), or rolls back (the tables are as they were and
\* the call returns the error of the step, as on a cancelled context); in
\* both ends the transaction is gone and the call has returned, and no step
\* of an open transaction starts a transaction again.
C11_TransactionEndsOnce ==
    /\ \A p \in Procs : (pc[p] # "idle") ~> (pc[p] = "idle")
    /\ [][\A p \in Procs :
            (pc[p] \in TxSteps /\ (pc'[p] # pc[p] \/ tx'[p] # tx[p]))
            => \/ /\ pc[p] # "commit"
                  /\ pc'[p] = StepAfter[pc[p]]
                  /\ req'[p] = req[p]
                  /\ response' = response
                  /\ tables' = tables
               \/ /\ pc[p] = "commit"
                  /\ pc'[p] = "idle"
                  /\ tx'[p] = EmptyTx
                  /\ response' = Return("AddPrecertificate", "ok", "done", req[p], NoCert)
                  /\ precertificates' = precertificates \o tx[p].precertificates
                  /\ certificateStatus' = certificateStatus \o tx[p].certificateStatus
                  /\ issuedNames' = issuedNames \o tx[p].issuedNames
                  /\ keyHashToSerial' = keyHashToSerial \o tx[p].keyHashToSerial
               \/ /\ pc'[p] = "idle"
                  /\ tx'[p] = EmptyTx
                  /\ response'.op = "AddPrecertificate"
                  /\ response'.arg = req[p]
                  /\ response'.step = pc[p]
                  /\ response'.err # "ok"
                  /\ tables' = tables]_vars

\* a call has failed in the middle of its transaction, after its two first
\* inserts, and has returned the error; no row of its serial is in a table
C11_Witness ==
    /\ response.op = "AddPrecertificate"
    /\ response.err = "StorageFailure"
    /\ response.step = "checkFQDNSet"
    /\ response.arg.Der = "der:2"
    /\ CountRows(precertificates, SerialOf("der:2")) = 0
    /\ CountRows(certificateStatus, SerialOf("der:2")) = 0
    /\ \A p \in Procs : pc[p] = "idle" /\ tx[p] = EmptyTx

\* the writes a transaction holds when it is at a step: those of the steps
\* before it, and no other
WritesBefore(p) ==
    LET n == Len(ParseCertificate(req[p].Der).DNSNames)
        holds(precerts, statuses, names, keys) ==
            /\ Len(tx[p].precertificates) = precerts
            /\ Len(tx[p].certificateStatus) = statuses
            /\ Len(tx[p].issuedNames) = names
            /\ (names = 0) = (tx[p].fqdnSets = {})
            /\ Len(tx[p].keyHashToSerial) = keys
    IN CASE pc[p] \in {"idle", "count", "insertPrecert"} -> tx[p] = EmptyTx
         [] pc[p] = "insertStatus" -> holds(1, 0, 0, 0)
         [] pc[p] \in {"checkFQDNSet", "addIssuedNames"} -> holds(1, 1, 0, 0)
         [] pc[p] = "addKeyHash" -> holds(1, 1, n, 0)
         [] pc[p] = "commit" -> holds(1, 1, n, 1)

\* C12: a transaction goes through its steps in the order count check,
\* precertificate insert, status insert, renewal query, name inserts, key
\* hash insert, commit, or ends; at every step it holds the writes of the
\* steps before and no other, so that the renewal query runs with the names
\* of its own issuance not yet recorded: it answers true only when another
\* issuance is committed, and the names of the first issuance committed are
\* recorded as no renewal.
C12_StepsInOrder ==
    /\ [](\A p \in Procs : WritesBefore(p))
    /\ [][\A p \in Procs :
            /\ pc'[p] # pc[p]
                 => \/ pc[p] = "idle" /\ pc'[p] = "count"
                    \/ pc[p] # "idle" /\ pc'[p] = "idle"
                    \/ pc[p] \in DOMAIN StepAfter /\ pc'[p] = StepAfter[pc[p]]
            /\ (pc[p] = "checkFQDNSet" /\ pc'[p] = "addIssuedNames"
                  /\ tx'[p].isRenewal)
                 => Len(precertificates) > 0]_vars
    /\ [](issuedNames # <<>> => ~issuedNames[1].isRenewal)

\* the first issuance ever has committed: its own name set is recorded now,
\* and its name row says no renewal
C12_Witness ==
    /\ response.op = "AddPrecertificate"
    /\ response.err = "ok"
    /\ response.arg.Der = "der:3"
    /\ Len(precertificates) = 1
    /\ Len(issuedNames) = 1
    /\ ~issuedNames[1].isRenewal
    /\ fqdnSets # {}

\* a certificateStatus row is in its initial state
InitialStatus(row) ==
    /\ row.status = "good"
    /\ row.revokedDate = [unixNano |-> -1]
    /\ row.revokedReason = 0
    /\ row.lastExpirationNagSent = [unixNano |-> -1]
    /\ row.isExpired = FALSE

CommittedWithSerialOf(r) ==
    CountRows(precertificates, SerialToString(ParseCertificate(r.Der).SerialNumber))

\* C14: the count statement ends a call as Duplicate exactly on the serial:
\* with a committed precertificates row of the serial of its certificate the
\* call ends there, as Duplicate (or with the error of the statement),
\* whatever the DER bytes and the names of that row; with no such row the
\* call goes on to its insert (or ends with the error of the statement) and
\* is not Duplicate, whatever names are recorded; and a call that has
\* returned Duplicate has a committed row of its serial.
C14_DuplicateOnSerialOnly ==
    /\ [][\A p \in Procs :
            (pc[p] = "count" /\ pc'[p] # "count")
            => IF CommittedWithSerialOf(req[p]) > 0
                 THEN /\ pc'[p] = "idle"
                      /\ response'.arg = req[p]
                      /\ response'.err \in {"Duplicate", "StorageFailure"}
                      /\ tables' = tables
                 ELSE \/ pc'[p] = "insertPrecert" /\ response' = response
                      \/ /\ pc'[p] = "idle"
                         /\ response'.arg = req[p]
                         /\ response'.err = "StorageFailure"]_vars
    /\ []((response.op = "AddPrecertificate" /\ response.err = "Duplicate")
            => CommittedWithSerialOf(response.arg) > 0)

\* a call for a certificate with other DER bytes and other names than the
\* committed one, and with its serial, has returned Duplicate
C14_Witness ==
    /\ response.op = "AddPrecertificate"
    /\ response.err = "Duplicate"
    /\ response.arg.Der = CollidingDER
    /\ Len(precertificates) = 1
    /\ precertificates[1].DER = "der:1"
    /\ Len(issuedNames) = 2

\* the DNS names of the certificates of the model, case ignored
NamesIgnoringCase(der) ==
    CASE der \in {"der:1", "der:2"} -> {"a.example", "b.example"}
      [] der = "der:3" -> {"a.example"}
      [] der = "der:4" -> {"c.example"}

\* the name sets of the committed issuances, case ignored
PriorNameSets ==
    {NamesIgnoringCase(precertificates[i].DER) : i \in 1..Len(precertificates)}

\* C15: the renewal query answers true exactly when the DNS names of the
\* certificate, case and order ignored, are the name set of a committed
\* issuance; when every committed name set differs from it, a strict subset
\* or a strict superset included, it answers false, also when the names with
\* the Subject Common Name added would be a committed set.
C15_RenewalIsSetEquality ==
    [][\A p \in Procs :
         (pc[p] = "checkFQDNSet" /\ pc'[p] = "addIssuedNames")
         => LET mine == NamesIgnoringCase(req[p].Der)
                cn == ParseCertificate(req[p].Der).CommonName
            IN /\ tx'[p].isRenewal = (mine \in PriorNameSets)
               /\ (\A set \in PriorNameSets :
                      \/ (set \subseteq mine /\ set # mine)
                      \/ (mine \subseteq set /\ set # mine)
                      \/ (set = mine \cup {cn} /\ set # mine))
                    => ~tx'[p].isRenewal]_vars

\* the issuance for a.example alone, with Common Name b.example, is
\* committed after the one for a.example and b.example, and is no renewal
C15_Witness ==
    /\ Len(issuedNames) = 3
    /\ issuedNames[1].serial = SerialToString(1)
    /\ issuedNames[3].serial = SerialToString(20)
    /\ issuedNames[3].name = "a.example"
    /\ ~issuedNames[3].isRenewal
    /\ PriorNameSets = {{"a.example", "b.example"}, {"a.example"}}

\* the issuedNames rows of a serial: one for every DNS name of the
\* certificate of every committed row of the serial, all with one isRenewal
\* value and one timestamp
OneRowPerName(s) ==
    /\ \A i \in 1..Len(precertificates) :
          precertificates[i].serial = s
          => \A j \in 1..Len(DNSNamesOf(precertificates[i])) :
                Cardinality({k \in 1..Len(issuedNames) :
                               /\ issuedNames[k].serial = s
                               /\ issuedNames[k].name = DNSNamesOf(precertificates[i])[j]}) = 1
    /\ \A k \in 1..Len(issuedNames) : \A l \in 1..Len(issuedNames) :
          (issuedNames[k].serial = s /\ issuedNames[l].serial = s)
          => /\ issuedNames[k].isRenewal = issuedNames[l].isRenewal
             /\ issuedNames[k].issuedAt = issuedNames[l].issuedAt

\* C16 as stated: every committed issuance has exactly one issuedNames row
\* for each DNS name of its certificate, and the issuedNames rows of a serial
\* all carry the same isRenewal value and the same timestamp.
C16_OneRowPerNamePerSerial == \A s \in AllSerials : OneRowPerName(s)

\* C16 as amended: a commit appends one issuedNames row for each DNS name of
\* the certificate, in their order, all with the isRenewal value of the
\* transaction and with one timestamp; and the rows of a serial are one for
\* each name, with one isRenewal value and one timestamp, unless two
\* transactions for the serial were past their count statement at the same
\* time.
C16_OneRowPerNameUnlessRaced ==
    /\ [](\A s \in AllSerials \ raced : OneRowPerName(s))
    /\ [][\A p \in Procs :
            (pc[p] = "commit" /\ pc'[p] = "idle" /\ response'.err = "ok")
            => LET names == ParseCertificate(req[p].Der).DNSNames
                   n == Len(issuedNames)
               IN /\ Len(issuedNames') = n + Len(names)
                  /\ SubSeq(issuedNames', 1, n) = issuedNames
                  /\ \A j \in 1..Len(names) :
                       /\ issuedNames'[n + j].name = names[j]
                       /\ issuedNames'[n + j].serial = precertificates'[Len(precertificates')].serial
                       /\ issuedNames'[n + j].isRenewal = tx[p].isRenewal
                       /\ issuedNames'[n + j].issuedAt = issuedNames'[n + 1].issuedAt]_vars

\* with no race, a renewal of two names is committed after the first
\* issuance of the names: its two rows carry the renewal flag and one
\* timestamp
C16_Witness ==
    /\ raced = {}
    /\ Len(issuedNames) = 4
    /\ issuedNames[3].serial = SerialToString(2)
    /\ issuedNames[4].serial = SerialToString(2)
    /\ {issuedNames[3].name, issuedNames[4].name} = {"A.Example", "B.EXAMPLE"}
    /\ issuedNames[3].isRenewal /\ issuedNames[4].isRenewal
    /\ issuedNames[3].issuedAt = issuedNames[4].issuedAt
    /\ Len(keyHashToSerial) = 2

\* C17: a step of AddPrecertificate leaves the serials table as it is, and
\* its count statement ends the call only on a precertificates row of the
\* serial (or on the error of the statement), reserved or not, so that a call
\* for a reserved serial and a call for a serial never reserved both go on;
\* a step of AddSerial leaves the four issuance tables, the name-set index
\* and every open transaction as they are.
C17_ReservationIndependent ==
    /\ [][(\/ pc' # pc
           \/ tx' # tx
           \/ tables' # tables
           \/ (response' # response /\ response'.op = "AddPrecertificate"))
          => serials' = serials]_vars
    /\ [][\A p \in Procs :
            (pc[p] = "count" /\ pc'[p] = "idle" /\ response'.err # "StorageFailure")
            => /\ response'.err = "Duplicate"
               /\ CountRows(precertificates, SerialOf(req[p].Der)) > 0]_vars
    /\ [][(serials' # serials \/ (response' # response /\ response'.op = "AddSerial"))
          => /\ tables' = tables
             /\ pc' = pc
             /\ req' = req
             /\ tx' = tx]_vars

\* a serial is reserved and has two precertificates rows: two calls for it
\* have both committed
C17_Witness ==
    /\ \E row \in serials : row.Serial = SerialToString(1)
    /\ Len(precertificates) = 2
    /\ precertificates[1].serial = SerialToString(1)
    /\ precertificates[2].serial = SerialToString(1)
    /\ Len(certificateStatus) = 2

\* C18: GetPrecertificate, whatever it returns (IncompleteRequest, the
\* validation error, NotFound, a storage error or a record), leaves every
\* table and every open transaction as they are and opens none; and no step
\* of any operation changes or removes a committed precertificates row: the
\* table only grows at its end.
C18_LookupReadOnly ==
    /\ [][(response' # response /\ response'.op = "GetPrecertificate")
          => /\ response'.err \in {"IncompleteRequest", "InvalidSerial", "NotFound",
                                   "StorageFailure", "ok"}
             /\ tables' = tables
             /\ serials' = serials
             /\ pc' = pc
             /\ req' = req
             /\ tx' = tx]_vars
    /\ [][/\ Len(precertificates') >= Len(precertificates)
          /\ SubSeq(precertificates', 1, Len(precertificates)) = precertificates]_vars

\* a lookup has returned the record of a committed issuance while a
\* transaction with an uncommitted row is open; the row is still there
C18_Witness ==
    /\ response.op = "GetPrecertificate"
    /\ response.err = "ok"
    /\ response.val.Der = "der:1"
    /\ Len(precertificates) = 1
    /\ precertificates[1].DER = "der:1"
    /\ \E p \in Procs : pc[p] = "insertStatus" /\ Len(tx[p].precertificates) = 1

\* the args map of the status insert has more keys than the field list
TooManyArguments == Len(StatusColumns) > Len(schema)

\* C19: with more keys in the args map than fields in the list, the status
\* step of a call, reached with the precertificates row written in its
\* transaction, ends the call with an error: the transaction, that row
\* included, is dropped and every table is as it was; no transaction ever
\* holds a certificateStatus row and no table ever a row; and the error of
\* the comparison is returned in no other case.
C19_TooManyArgumentsFails ==
    /\ [][\A p \in Procs :
            (TooManyArguments /\ pc[p] = "insertStatus" /\ pc'[p] # "insertStatus")
            => /\ Len(tx[p].precertificates) = 1
               /\ pc'[p] = "idle"
               /\ tx'[p] = EmptyTx
               /\ response'.op = "AddPrecertificate"
               /\ response'.arg = req[p]
               /\ response'.step = "insertStatus"
               /\ response'.err \in {"SchemaMismatch", "StorageFailure"}
               /\ tables' = tables]_vars
    /\ [](TooManyArguments
            => /\ \A p \in Procs : tx[p].certificateStatus = <<>>
               /\ precertificates = <<>>
               /\ certificateStatus = <<>>
               /\ issuedNames = <<>>
               /\ keyHashToSerial = <<>>)
    /\ [](response.err = "SchemaMismatch"
            => TooManyArguments /\ response.step = "insertStatus")

\* a call on a store whose field list lacks a column has failed at the
\* status step; no row of its serial is in the tables
C19_Witness ==
    /\ schema = FewerStatusColumns
    /\ response.op = "AddPrecertificate"
    /\ response.err = "SchemaMismatch"
    /\ response.step = "insertStatus"
    /\ response.arg.Der = "der:1"
    /\ CountRows(precertificates, SerialToString(1)) = 0
    /\ CountRows(certificateStatus, SerialToString(1)) = 0
====
